---- MODULE Spec2Model ----
(***************************************************************************)
(* State-machine model of src/main.cpp: the SDL3 callback application      *)
(* (SDL_AppInit, SDL_AppEvent, SDL_AppIterate, SDL_AppQuit) that builds a  *)
(* batch of random sprite instances every frame, uploads it and draws it.  *)
(*                                                                         *)
(* Numbers.  TLC integers are 32 bits wide, so the 64-bit generator state  *)
(* is held as 8 little-endian bytes.  A float is held exactly: x, y, w, h, *)
(* z and the colours are integers; the texture coordinates are held as     *)
(* twice their value (0.5f is 1); a rotation is [m, e], the float m * 2^e. *)
(***************************************************************************)
EXTENDS Integers, Sequences, FiniteSets, TLC

(***************************************************************************)
(* Bounds                                                                  *)
(***************************************************************************)
\* Number of records of the sprite array.  main.cpp:41 sets 8192; the model
\* keeps the loop, the upload and the draw over SPRITE_COUNT records and
\* bounds the count.
SPRITE_COUNT == 3

\* Largest number of SDL_AppIterate calls of one run.
MaxCalls == 3

\* Largest number of calls of one SDL_AppInit that fail.
MaxFailures == 3

(***************************************************************************)
(* Values                                                                  *)
(***************************************************************************)
SDL_APP_CONTINUE == "SDL_APP_CONTINUE"
SDL_APP_SUCCESS == "SDL_APP_SUCCESS"
SDL_APP_FAILURE == "SDL_APP_FAILURE"

windowStartWidth == 640
windowStartHeight == 480

\* uCoords, vCoords (main.cpp:378-379), as twice their value, indexed from 1.
uCoords == <<0, 1, 0, 1>>
vCoords == <<0, 0, 1, 1>>

Zero64 == <<0, 0, 0, 0, 0, 0, 0, 0>>

\* Values SDL_GetPerformanceCounter() may return when SDL_srand reads it.
\* The first is the reference run; the second makes the first rotation draw
\* the largest value SDL_randf can return and the first x draw 639; the
\* third makes the first rotation draw 0.
PerfCounters ==
    { <<1, 0, 0, 0, 0, 0, 0, 0>>,
      <<78, 130, 162, 1, 150, 55, 47, 81>>,
      <<101, 107, 157, 86, 243, 19, 75, 137>> }

ReferenceCounter == <<1, 0, 0, 0, 0, 0, 0, 0>>

\* Logical window sizes the user may resize the window to.
WindowSizes == { <<640, 480>>, <<320, 240>> }

(***************************************************************************)
(* The random generator (SDL_srand, SDL_rand, SDL_randf of SDL3)           *)
(***************************************************************************)
\* main.cpp calls the generator of the SDL3 library (SDL_random.c): a 64-bit
\* linear congruential generator whose upper 32 bits are the output.
\* The multiplier 0xff1cd035 of the generator, little-endian bytes.
LcgMul == <<53, 208, 28, 255>>

\* Column i (0-based) of the byte product state * 0xff1cd035.
RECURSIVE LcgColumn(_, _, _)
LcgColumn(s, i, j) ==
    IF j > 3 \/ j > i THEN 0
    ELSE s[i - j + 1] * LcgMul[j + 1] + LcgColumn(s, i, j + 1)

RECURSIVE LcgBytes(_, _, _)
LcgBytes(s, i, carry) ==
    IF i > 7 THEN <<>>
    ELSE LET t == LcgColumn(s, i, 0) + carry
         IN  <<t % 256>> \o LcgBytes(s, i + 1, t \div 256)

\* *state = *state * 0xff1cd035ul + 0x05, modulo 2^64.
LcgNext(s) == LcgBytes(s, 0, 5)

\* SDL_srand(seed): a zero seed is replaced by the performance counter.
SDL_srand(seed, counter) == IF seed = Zero64 THEN counter ELSE seed

\* The upper and the lower half of the 32 bits SDL_rand_bits returns.
BitsHi(s) == s[8] * 256 + s[7]
BitsLo(s) == s[6] * 256 + s[5]

\* SDL_rand(n) on the advanced state s: (bits * n) >> 32.
SDL_rand(s, n) == (BitsHi(s) * n + ((BitsLo(s) * n) \div 65536)) \div 65536

\* SDL_randf() on the advanced state s: (bits >> 8) * 2^-24; the result is
\* the 24-bit integer k, standing for the float k * 2^-24.
SDL_randf(s) == s[8] * 65536 + s[7] * 256 + s[6]

(***************************************************************************)
(* Single-precision arithmetic of the rotation                             *)
(***************************************************************************)
RECURSIVE Pow2(_)
Pow2(n) == IF n = 0 THEN 1 ELSE 2 * Pow2(n - 1)

RECURSIVE BitLength(_)
BitLength(n) == IF n = 0 THEN 0 ELSE 1 + BitLength(n \div 2)

\* Mantissa of SDL_PI_F, the float nearest to pi: 13176795 * 2^-22.
PiMantissa == 13176795

\* Mutant of RoundProduct: the product is rounded up instead of to nearest.
RoundProductUp(hi, lo) ==
    IF hi = 0 THEN [m |-> lo, e |-> -46]
    ELSE LET b    == BitLength(hi)
             kept == hi * Pow2(24 - b) + (lo \div Pow2(b))
             rem  == lo % Pow2(b)
             m    == IF rem > 0 THEN kept + 1 ELSE kept
         IN  IF m = 16777216 THEN [m |-> 8388608, e |-> b - 46 + 1]
             ELSE [m |-> m, e |-> b - 46]

\* Round-to-nearest-even of the 48-bit product hi * 2^24 + lo * 2^0 (in units
\* of 2^-46) to a float [m, e].
RoundProduct(hi, lo) ==
    IF hi = 0 THEN [m |-> lo, e |-> -46]
    ELSE LET b    == BitLength(hi)
             kept == hi * Pow2(24 - b) + (lo \div Pow2(b))
             rem  == lo % Pow2(b)
             half == Pow2(b - 1)
             up   == rem > half \/ (rem = half /\ kept % 2 = 1)
             m    == IF up THEN kept + 1 ELSE kept
         IN  IF m = 16777216 THEN [m |-> 8388608, e |-> b - 46 + 1]
             ELSE [m |-> m, e |-> b - 46]

\* The float product (k * 2^-24) * SDL_PI_F.
MulPi(k) ==
    LET kh  == k \div 4096
        kl  == k % 4096
        ph  == PiMantissa \div 4096
        pl  == PiMantissa % 4096
        mid == kh * pl + kl * ph
        low == kl * pl + (mid % 4096) * 4096
        lo  == low % 16777216
        hi  == kh * ph + (mid \div 4096) + (low \div 16777216)
    IN  RoundProduct(hi, lo)

\* SDL_randf() * SDL_PI_F * 2 (main.cpp:426); the doubling is exact.
Rotation(k) == LET p == MulPi(k) IN [m |-> p.m, e |-> p.e + 1]

(***************************************************************************)
(* The build loop of SDL_AppIterate (main.cpp:420-437)                     *)
(***************************************************************************)
\* Mutant of SpriteRecord: the UV extent is the whole atlas.
SpriteRecordFullExtent(s) ==
    LET s1 == LcgNext(s)
        s2 == LcgNext(s1)
        s3 == LcgNext(s2)
        s4 == LcgNext(s3)
        ravioli == SDL_rand(s1, 4)
    IN  [ rec |-> [ x |-> SDL_rand(s2, 640), y |-> SDL_rand(s3, 480), z |-> 0,
                    rotation |-> Rotation(SDL_randf(s4)),
                    w |-> 32, h |-> 32,
                    tex_u |-> uCoords[ravioli + 1],
                    tex_v |-> vCoords[ravioli + 1],
                    tex_w |-> 2, tex_h |-> 2,
                    r |-> 1, g |-> 1, b |-> 1, a |-> 1 ],
          ravioli |-> ravioli,
          rand |-> s4 ]

\* One iteration draws four numbers; s is the generator state before it.
SpriteRecord(s) ==
    LET s1 == LcgNext(s)
        s2 == LcgNext(s1)
        s3 == LcgNext(s2)
        s4 == LcgNext(s3)
        ravioli == SDL_rand(s1, 4)
    IN  [ rec |-> [ x |-> SDL_rand(s2, 640), y |-> SDL_rand(s3, 480), z |-> 0,
                    rotation |-> Rotation(SDL_randf(s4)),
                    w |-> 32, h |-> 32,
                    tex_u |-> uCoords[ravioli + 1],
                    tex_v |-> vCoords[ravioli + 1],
                    tex_w |-> 1, tex_h |-> 1,
                    r |-> 1, g |-> 1, b |-> 1, a |-> 1 ],
          ravioli |-> ravioli,
          rand |-> s4 ]

\* for (i = 0; i < SPRITE_COUNT; i += 1): the records written from slot i on
\* and the generator state after the loop.
RECURSIVE BuildSprites(_, _)
BuildSprites(s, i) ==
    IF i >= SPRITE_COUNT THEN [recs |-> <<>>, indices |-> <<>>, rand |-> s]
    ELSE LET one  == SpriteRecord(s)
             rest == BuildSprites(one.rand, i + 1)
         IN  [ recs |-> <<one.rec>> \o rest.recs,
               indices |-> <<one.ravioli>> \o rest.indices,
               rand |-> rest.rand ]

(***************************************************************************)
(* State                                                                   *)
(***************************************************************************)
VARIABLES
    phase,          \* where the SDL main-callback driver is: "boot",
                    \* "running", "exiting" (SDL_AppQuit is due), "done",
                    \* or "crashed" (the process died inside a callback)
    appstate,       \* *appstate: "NULL", "app" or "deleted"
    app_quit,       \* AppContext::app_quit
    rand_state,     \* SDL's generator state
    transfer,       \* contents of SpriteDataTransferBuffer
    gpuBuffer,      \* contents of SpriteDataBuffer
    drawn,          \* what the last executed draw call read, and the
                    \* SDL_AppIterate call that submitted it
    mapped,         \* SpriteDataTransferBuffer is mapped
    unsubmitted,    \* command buffers acquired and not submitted
    hazard,         \* a write, map or upload happened out of order
    calls,          \* SDL calls made by the last SDL_AppIterate
    indices,        \* values of ravioli in the last build loop
    writtenIn,      \* per slot, the SDL_AppIterate call that wrote it last
    result,         \* return value of the last callback ("none" when it
                    \* did not return)
    lastOp,         \* the last callback that ran
    acq,            \* what the acquisitions of the last SDL_AppIterate gave
    quitDelivered,  \* an SDL_EVENT_QUIT has been given to SDL_AppEvent
    callNo,         \* number of SDL_AppIterate calls so far
    built,          \* number of SDL_AppIterate calls that ran the build loop
    winSize,        \* logical size of the window
    log,            \* messages logged by the last callback
    assets,         \* per asset: "unreached", "loaded" or "null"
    acquired,       \* handles acquired by SDL_AppInit, in order
    live,           \* handles that are neither released nor destroyed
    released,       \* handles released by SDL_AppQuit, in order
    useAfterRelease \* SDL_AppQuit used a handle that was not live

vars == << phase, appstate, app_quit, rand_state, transfer, gpuBuffer, drawn,
           mapped, unsubmitted, hazard, calls, indices, writtenIn, result,
           lastOp, acq, quitDelivered, callNo, built, winSize, log, assets,
           acquired, live, released, useAfterRelease >>

Unwritten == [ x |-> -1, y |-> -1, z |-> -1, rotation |-> [m |-> 0, e |-> 0],
               w |-> -1, h |-> -1, tex_u |-> -1, tex_v |-> -1,
               tex_w |-> -1, tex_h |-> -1,
               r |-> -1, g |-> -1, b |-> -1, a |-> -1 ]

AssetNames == {"vertShader", "fragShader", "image", "font", "svg", "music"}

NoDraw == [vertices |-> 0, data |-> <<>>, call |-> 0]

Init ==
    /\ phase = "boot"
    /\ appstate = "NULL"
    /\ app_quit = SDL_APP_CONTINUE
    /\ rand_state = Zero64
    /\ transfer = <<>>
    /\ gpuBuffer = <<>>
    /\ drawn = NoDraw
    /\ mapped = FALSE
    /\ unsubmitted = 0
    /\ hazard = FALSE
    /\ calls = <<>>
    /\ indices = <<>>
    /\ writtenIn = <<>>
    /\ result = SDL_APP_CONTINUE
    /\ lastOp = "none"
    /\ acq = "none"
    /\ quitDelivered = FALSE
    /\ callNo = 0
    /\ built = 0
    /\ winSize = <<windowStartWidth, windowStartHeight>>
    /\ log = <<>>
    /\ assets = [a \in AssetNames |-> "unreached"]
    /\ acquired = <<>>
    /\ live = {}
    /\ released = <<>>
    /\ useAfterRelease = FALSE

(***************************************************************************)
(* SDL_Fail (main.cpp:44-47)                                               *)
(***************************************************************************)
\* Logs "Error <SDL_GetError()>" and yields SDL_APP_FAILURE.
SDL_Fail(l) == [log |-> Append(l, "Error"), result |-> SDL_APP_FAILURE]

(***************************************************************************)
(* SDL_AppInit (main.cpp:49-366)                                           *)
(***************************************************************************)
Step(call, kind, handle, asset, note) ==
    [call |-> call, kind |-> kind, handle |-> handle, asset |-> asset,
     note |-> note]

\* The calls of SDL_AppInit in order.  kind "checked": the result is tested
\* and a failure returns SDL_Fail(); "unchecked": the call may fail and the
\* result is not tested; "deref": the call may return NULL and the result
\* is written through untested (main.cpp:194-199); "always": SDL_srand, which
\* returns nothing.
InitSteps ==
    << Step("SDL_Init", "checked", "SDL", "", ""),
       Step("TTF_Init", "checked", "TTF", "", ""),
       Step("SDL_CreateWindow", "checked", "window", "", ""),
       Step("SDL_GetBasePath", "checked", "", "", ""),
       Step("SDL_CreateGPUDevice", "checked", "device", "",
            "GPUCreateDevice failed"),
       Step("SDL_ClaimWindowForGPUDevice", "checked", "claim", "",
            "GPUClaimWindow failed"),
       Step("SDL_srand", "always", "", "", ""),
       Step("LoadShader(vert)", "unchecked", "", "vertShader", ""),
       Step("LoadShader(frag)", "unchecked", "", "fragShader", ""),
       Step("SDL_CreateGPUGraphicsPipeline", "unchecked", "RenderPipeline",
            "", ""),
       Step("LoadImage", "checked", "", "image",
            "Could not load image data!"),
       Step("SDL_CreateGPUTransferBuffer(texture)", "unchecked",
            "textureTransferBuffer", "", ""),
       Step("SDL_MapGPUTransferBuffer(texture)", "deref", "", "", ""),
       Step("SDL_CreateGPUTexture", "unchecked", "Texture", "", ""),
       Step("SDL_CreateGPUSampler", "unchecked", "Sampler", "", ""),
       Step("SDL_CreateGPUTransferBuffer", "unchecked",
            "SpriteDataTransferBuffer", "", ""),
       Step("SDL_CreateGPUBuffer", "unchecked", "SpriteDataBuffer", "", ""),
       Step("TTF_OpenFont", "checked", "", "font", ""),
       Step("IMG_Load", "unchecked", "", "svg", ""),
       Step("SDL_OpenAudioDevice", "checked", "audioDevice", "", ""),
       Step("Mix_OpenAudio", "checked", "mixer", "", ""),
       Step("Mix_LoadMUS", "checked", "music", "music", "") >>

\* The calls whose outcome is an input of SDL_AppInit.
InitCalls ==
    { InitSteps[i].call : i \in { j \in 1..Len(InitSteps) :
                                    InitSteps[j].kind # "always" } }

\* The sets of calls that fail in one SDL_AppInit: any combination of at
\* most MaxFailures calls.
InitFailures == { F \in SUBSET InitCalls : Cardinality(F) <= MaxFailures }

\* The outcomes of the calls of one SDL_AppInit: which calls succeed.
InitOutcomes == { [c \in InitCalls |-> c \notin F] : F \in InitFailures }

InitStart ==
    [ acquired |-> <<>>, assets |-> [a \in AssetNames |-> "unreached"],
      log |-> <<>>, failedAt |-> 0, crashed |-> FALSE, rand |-> Zero64 ]

Has(seq, e) == \E i \in 1..Len(seq) : seq[i] = e

\* Runs the calls from the i-th on; ok[call] says whether a call succeeds and
\* counter is what SDL_GetPerformanceCounter() returns.
RECURSIVE InitWalk(_, _, _, _)
InitWalk(ok, counter, i, st) ==
    IF i > Len(InitSteps) THEN st
    ELSE
      LET step == InitSteps[i]
          \* mapping a transfer buffer that was not created gives NULL
          good == /\ step.kind = "always" \/ ok[step.call]
                  /\ step.kind = "deref" =>
                        Has(st.acquired, "textureTransferBuffer")
          got  == [ st EXCEPT
                     !.acquired = IF step.handle # ""
                                  THEN Append(@, step.handle) ELSE @,
                     !.assets = IF step.asset # ""
                                THEN [@ EXCEPT ![step.asset] = "loaded"]
                                ELSE @,
                     !.rand = IF step.call = "SDL_srand"
                              THEN SDL_srand(Zero64, counter) ELSE @ ]
          null == [ st EXCEPT
                     !.assets = IF step.asset # ""
                                THEN [@ EXCEPT ![step.asset] = "null"]
                                ELSE @ ]
      IN  IF good THEN InitWalk(ok, counter, i + 1, got)
          ELSE IF step.kind = "checked"
               THEN [ null EXCEPT
                       !.failedAt = i,
                       !.log = SDL_Fail(IF step.note # ""
                                        THEN Append(@, step.note)
                                        ELSE @).log ]
          ELSE IF step.kind = "deref"
               THEN [null EXCEPT !.failedAt = i, !.crashed = TRUE]
               ELSE InitWalk(ok, counter, i + 1, null)

\* main.cpp:337-347 and 363: what a successful SDL_AppInit logs; hidpi says
\* that the width in pixels differs from the logical width.
StartLog(hidpi) ==
    <<"Window size", "Backbuffer size">>
    \o (IF hidpi THEN <<"This is a highdpi environment.">> ELSE <<>>)
    \o <<"Application started successfully!">>

\* The inputs: ok says which of the calls succeed, counter is what
\* SDL_GetPerformanceCounter() returns, hidpi whether the window has more
\* pixels than logical units.  The write through a NULL mapping of
\* main.cpp:199 ends the process.
SDL_AppInit ==
    /\ phase = "boot"
    /\ \E ok \in InitOutcomes, counter \in PerfCounters, hidpi \in BOOLEAN :
       \E st \in {InitWalk(ok, counter, 1, InitStart)} :
       LET success == st.failedAt = 0
           has(h) == Has(st.acquired, h)
       IN  /\ result' = IF success THEN SDL_APP_CONTINUE
                         ELSE IF st.crashed THEN "none"
                         ELSE SDL_APP_FAILURE
           /\ phase' = IF success THEN "running"
                        ELSE IF st.crashed THEN "crashed"
                        ELSE "exiting"
           /\ appstate' = IF success THEN "app" ELSE "NULL"
           /\ log' = IF success THEN st.log \o StartLog(hidpi) ELSE st.log
           /\ assets' = st.assets
           /\ acquired' = st.acquired
           \* the texture transfer buffer is released at main.cpp:279
           /\ live' = ({ st.acquired[i] : i \in 1..Len(st.acquired) }
                          \ (IF st.crashed THEN {}
                             ELSE {"textureTransferBuffer"}))
                        \cup (IF success THEN {"app"} ELSE {})
           /\ rand_state' = st.rand
           /\ transfer' = IF has("SpriteDataTransferBuffer")
                          THEN [i \in 1..SPRITE_COUNT |-> Unwritten] ELSE <<>>
           /\ gpuBuffer' = IF has("SpriteDataBuffer")
                           THEN [i \in 1..SPRITE_COUNT |-> Unwritten] ELSE <<>>
           /\ writtenIn' = IF has("SpriteDataTransferBuffer")
                           THEN [i \in 1..SPRITE_COUNT |-> 0] ELSE <<>>
    /\ lastOp' = "init"
    /\ UNCHANGED << app_quit, drawn, mapped, unsubmitted, hazard, calls,
                    indices, acq, quitDelivered, callNo, built, winSize,
                    released, useAfterRelease >>

(***************************************************************************)
(* SDL_AppEvent (main.cpp:368-376)                                         *)
(***************************************************************************)
EventTypes == {"SDL_EVENT_QUIT", "SDL_EVENT_WINDOW_RESIZED",
               "SDL_EVENT_KEY_DOWN"}

\* The value of app->app_quit after the handler saw an event of type e.
EventQuit(e, q) == IF e = "SDL_EVENT_QUIT" THEN SDL_APP_SUCCESS ELSE q

\* size is the logical window size when the event is delivered; it differs
\* from winSize only with a resize event.
SDL_AppEvent(e, size) ==
    /\ phase = "running"
    /\ e # "SDL_EVENT_WINDOW_RESIZED" => size = winSize
    /\ winSize' = size
    /\ app_quit' = EventQuit(e, app_quit)
    /\ quitDelivered' = (quitDelivered \/ e = "SDL_EVENT_QUIT")
    /\ result' = SDL_APP_CONTINUE
    /\ log' = <<>>
    /\ lastOp' = "event"
    /\ UNCHANGED << phase, appstate, rand_state, transfer, gpuBuffer, drawn,
                    mapped, unsubmitted, hazard, calls, indices, writtenIn,
                    acq, callNo, built, assets, acquired, live,
                    released, useAfterRelease >>

(***************************************************************************)
(* SDL_AppIterate (main.cpp:380-515)                                       *)
(***************************************************************************)
Call(op) == [op |-> op, arg |-> 0]
CallArg(op, arg) == [op |-> op, arg |-> arg]

\* What the untested-or-tested acquisitions of one SDL_AppIterate give:
\* no command buffer, no swapchain, a NULL swapchain texture, a texture and
\* a NULL mapping of the transfer buffer, or a texture and a mapping.
AcqOutcomes ==
    {"cmdbuf_fail", "swapchain_fail", "no_texture", "map_fail", "texture"}

\* The handles a draw call needs bound to draw anything.
DrawHandles == {"RenderPipeline", "SpriteDataBuffer", "Texture", "Sampler"}

\* Mutant of BuildCalls: the loop stops one record early.
BuildCallsShort ==
    <<[op |-> "SDL_MapGPUTransferBuffer", arg |-> 0]>>
    \o [i \in 1..(SPRITE_COUNT - 1) |-> [op |-> "Write", arg |-> i]]
    \o <<[op |-> "SDL_UnmapGPUTransferBuffer", arg |-> 0]>>

\* main.cpp:414-439: map, the writes of the loop (slot 1..SPRITE_COUNT), unmap.
BuildCalls ==
    <<Call("SDL_MapGPUTransferBuffer")>>
    \o [i \in 1..SPRITE_COUNT |-> CallArg("Write", i)]
    \o <<Call("SDL_UnmapGPUTransferBuffer")>>

\* main.cpp:442-459.
UploadCalls ==
    << Call("SDL_BeginGPUCopyPass"), Call("SDL_UploadToGPUBuffer"),
       Call("SDL_EndGPUCopyPass") >>

\* main.cpp:462-509.
RenderCalls ==
    << Call("SDL_BeginGPURenderPass"), Call("SDL_BindGPUGraphicsPipeline"),
       Call("SDL_BindGPUVertexStorageBuffers"),
       Call("SDL_BindGPUFragmentSamplers"),
       Call("SDL_PushGPUVertexUniformData"),
       CallArg("SDL_DrawGPUPrimitives", SPRITE_COUNT * 6),
       Call("SDL_EndGPURenderPass") >>

\* Mutant of FrameCalls: the render pass is recorded before the copy pass.
FrameCallsDrawFirst == BuildCalls \o RenderCalls \o UploadCalls

\* The body of if (swapchainTexture != NULL), main.cpp:411-510.
FrameCalls == BuildCalls \o UploadCalls \o RenderCalls

\* The SDL calls of one SDL_AppIterate, given what the acquisitions give.
IterateCalls(a) ==
    <<Call("SDL_AcquireGPUCommandBuffer")>>
    \o (IF a = "cmdbuf_fail" THEN <<>>
        ELSE <<Call("SDL_WaitAndAcquireGPUSwapchainTexture")>>
             \o (IF a = "swapchain_fail" THEN <<>>
                 ELSE IF a = "map_fail"
                 THEN <<Call("SDL_MapGPUTransferBuffer")>>
                 ELSE (IF a = "texture" THEN FrameCalls ELSE <<>>)
                      \o <<Call("SDL_SubmitGPUCommandBuffer")>>))

\* The GPU runs the commands of a submitted command buffer in order: an
\* upload copies the transfer buffer into SpriteDataBuffer, a draw reads
\* SpriteDataBuffer.  SDL rejects a command on a handle that is NULL: an
\* upload into a buffer that was not created and a draw without its
\* pipeline, buffer, texture or sampler do nothing.
RECURSIVE Execute(_, _, _, _)
Execute(cmds, i, m, n) ==
    IF i > Len(cmds) THEN m
    ELSE LET c == cmds[i]
         IN  Execute(cmds, i + 1,
               IF c.op = "SDL_UploadToGPUBuffer"
                  /\ "SpriteDataBuffer" \in m.handles
               THEN [m EXCEPT !.gpu = m.xfer]
               ELSE IF c.op = "SDL_DrawGPUPrimitives"
                       /\ DrawHandles \subseteq m.handles
               THEN [m EXCEPT !.drawn = [vertices |-> c.arg, data |-> m.gpu,
                                         call |-> n]]
               ELSE m,
               n)

\* The effect of one SDL call on the device; recs are the records the loop
\* computed, n is the number of this SDL_AppIterate call.
Apply(c, m, recs, n, a) ==
    CASE c.op = "SDL_AcquireGPUCommandBuffer" ->
           IF a = "cmdbuf_fail" THEN m
           ELSE [m EXCEPT !.unsubmitted = @ + 1, !.recorded = <<>>]
      [] c.op = "SDL_MapGPUTransferBuffer" ->
           IF a = "map_fail" THEN m
           ELSE [m EXCEPT !.mapped = TRUE, !.hazard = @ \/ m.mapped]
      [] c.op = "Write" ->
           IF m.mapped
           THEN [m EXCEPT !.xfer[c.arg] = recs[c.arg],
                          !.writtenIn[c.arg] = n]
           ELSE [m EXCEPT !.hazard = TRUE]
      [] c.op = "SDL_UnmapGPUTransferBuffer" ->
           [m EXCEPT !.mapped = FALSE, !.hazard = @ \/ ~m.mapped]
      [] c.op = "SDL_UploadToGPUBuffer" ->
           [m EXCEPT !.recorded = Append(@, c), !.hazard = @ \/ m.mapped]
      [] c.op = "SDL_DrawGPUPrimitives" ->
           [m EXCEPT !.recorded = Append(@, c)]
      [] c.op = "SDL_SubmitGPUCommandBuffer" ->
           [Execute(m.recorded, 1, m, n) EXCEPT !.unsubmitted = @ - 1,
                                               !.recorded = <<>>]
      [] OTHER -> m

RECURSIVE RunCalls(_, _, _, _, _, _)
RunCalls(cs, i, m, recs, n, a) ==
    IF i > Len(cs) THEN m
    ELSE RunCalls(cs, i + 1, Apply(cs[i], m, recs, n, a), recs, n, a)

\* Mutant of IterateResult: a pending quit is returned before the
\* acquisitions are looked at.
IterateResultQuitFirst(a, q, l) ==
    IF q = SDL_APP_SUCCESS THEN [log |-> l, result |-> q]
    ELSE IF a = "cmdbuf_fail"
    THEN SDL_Fail(Append(l, "AcquireGPUCommandBuffer failed"))
    ELSE IF a = "swapchain_fail"
    THEN SDL_Fail(Append(l, "WaitAndAcquireGPUSwapchainTexture failed"))
    ELSE IF a = "map_fail" THEN [log |-> l, result |-> "none"]
    ELSE [log |-> l, result |-> q]

\* What SDL_AppIterate logs and returns, given the acquisitions; it does not
\* return when the mapping is NULL.
IterateResult(a, q, l) ==
    IF a = "cmdbuf_fail"
    THEN SDL_Fail(Append(l, "AcquireGPUCommandBuffer failed"))
    ELSE IF a = "swapchain_fail"
    THEN SDL_Fail(Append(l, "WaitAndAcquireGPUSwapchainTexture failed"))
    ELSE IF a = "map_fail" THEN [log |-> l, result |-> "none"]
    ELSE [log |-> l, result |-> q]

\* The build loop when dataPtr is NULL: SDL_rand(4) and SDL_rand(640) are
\* drawn, then the store to dataPtr[0].x (main.cpp:423) faults.
BuildOnNull(s) ==
    LET s1 == LcgNext(s)
    IN  [recs |-> <<>>, indices |-> <<SDL_rand(s1, 4)>>, rand |-> LcgNext(s1)]

\* Mapping a transfer buffer that was not created gives NULL, so a frame
\* with a texture needs SpriteDataTransferBuffer to get a mapping.  The
\* store through a NULL mapping is undefined; on the platforms SDL runs on
\* page 0 is not mapped and the store ends the process: no record is
\* written, nothing is submitted and SDL_AppQuit does not run.
SDL_AppIterate(a) ==
    /\ phase = "running"
    /\ callNo < MaxCalls
    /\ a = "texture" => "SpriteDataTransferBuffer" \in live
    /\ LET n    == callNo + 1
           cs   == IterateCalls(a)
           m0   == [ mapped |-> mapped, xfer |-> transfer,
                     writtenIn |-> writtenIn, gpu |-> gpuBuffer,
                     drawn |-> drawn, recorded |-> <<>>,
                     unsubmitted |-> unsubmitted, hazard |-> hazard,
                     handles |-> live ]
           out  == IterateResult(a, app_quit, <<>>)
           skip == [recs |-> <<>>, indices |-> <<>>, rand |-> rand_state]
       IN  \E loop \in { IF a = "texture" THEN BuildSprites(rand_state, 0)
                          ELSE IF a = "map_fail" THEN BuildOnNull(rand_state)
                          ELSE skip } :
           \E m \in {RunCalls(cs, 1, m0, loop.recs, n, a)} :
           /\ callNo' = n
           /\ calls' = cs
           /\ rand_state' = loop.rand
           /\ indices' = loop.indices
           /\ built' = IF a = "texture" THEN built + 1 ELSE built
           /\ transfer' = m.xfer
           /\ writtenIn' = m.writtenIn
           /\ gpuBuffer' = m.gpu
           /\ drawn' = m.drawn
           /\ mapped' = m.mapped
           /\ unsubmitted' = m.unsubmitted
           /\ hazard' = m.hazard
           /\ log' = out.log
           /\ result' = out.result
           /\ phase' = IF out.result = SDL_APP_CONTINUE THEN "running"
                       ELSE IF out.result = "none" THEN "crashed"
                       ELSE "exiting"
    /\ acq' = a
    /\ lastOp' = "iterate"
    /\ UNCHANGED << appstate, app_quit, quitDelivered, winSize, assets,
                    acquired, live, released, useAfterRelease >>

(***************************************************************************)
(* SDL_AppQuit (main.cpp:517-537)                                          *)
(***************************************************************************)
Op(name, uses, frees) == [name |-> name, uses |-> uses, frees |-> frees]

\* Mutant of AppTeardown: the mixer is closed before the music is freed.
AppTeardownMixerFirst ==
    << Op("SDL_ReleaseWindowFromGPUDevice", {"app", "device", "window"},
          "claim"),
       Op("SDL_DestroyWindow", {"app", "window"}, "window"),
       Op("SDL_DestroyGPUDevice", {"app", "device"}, "device"),
       Op("Mix_CloseAudio", {"mixer"}, "mixer"),
       Op("Mix_FadeOutMusic", {"mixer"}, ""),
       Op("Mix_FreeMusic", {"app", "music", "mixer"}, "music"),
       Op("SDL_CloseAudioDevice", {"app", "audioDevice"}, "audioDevice"),
       Op("delete", {"app"}, "app") >>

\* main.cpp:521-530, the body of if (app).
AppTeardown ==
    << Op("SDL_ReleaseWindowFromGPUDevice", {"app", "device", "window"},
          "claim"),
       Op("SDL_DestroyWindow", {"app", "window"}, "window"),
       Op("SDL_DestroyGPUDevice", {"app", "device"}, "device"),
       Op("Mix_FadeOutMusic", {"mixer"}, ""),
       Op("Mix_FreeMusic", {"app", "music", "mixer"}, "music"),
       Op("Mix_CloseAudio", {"mixer"}, "mixer"),
       Op("SDL_CloseAudioDevice", {"app", "audioDevice"}, "audioDevice"),
       Op("delete", {"app"}, "app") >>

\* main.cpp:532-536.
LibraryTeardown ==
    << Op("TTF_Quit", {}, "TTF"), Op("Mix_Quit", {}, ""),
       Op("SDL_Quit", {}, "SDL") >>

TeardownOps(p) ==
    (IF p # "NULL" THEN AppTeardown ELSE <<>>) \o LibraryTeardown

RECURSIVE Teardown(_, _, _)
Teardown(ops, i, st) ==
    IF i > Len(ops) THEN st
    ELSE LET o == ops[i]
         IN  Teardown(ops, i + 1,
               [ live |-> st.live \ {o.frees},
                 released |-> IF o.frees # "" /\ o.frees \in st.live
                              THEN Append(st.released, o.frees)
                              ELSE st.released,
                 bad |-> st.bad \/ ~(o.uses \subseteq st.live) ])

SDL_AppQuit ==
    /\ phase = "exiting"
    /\ LET st == Teardown(TeardownOps(appstate), 1,
                          [live |-> live, released |-> released,
                           bad |-> useAfterRelease])
       IN  /\ live' = st.live
           /\ released' = st.released
           /\ useAfterRelease' = st.bad
    /\ appstate' = IF appstate = "app" THEN "deleted" ELSE appstate
    /\ log' = <<"Application quit successfully!">>
    /\ phase' = "done"
    /\ lastOp' = "quit"
    /\ UNCHANGED << app_quit, rand_state, transfer, gpuBuffer, drawn, mapped,
                    unsubmitted, hazard, calls, indices, writtenIn, result,
                    acq, quitDelivered, callNo, built, winSize, assets,
                    acquired >>

(***************************************************************************)
(* Specification                                                           *)
(***************************************************************************)
Next ==
    \/ SDL_AppInit
    \/ \E e \in EventTypes, size \in WindowSizes : SDL_AppEvent(e, size)
    \/ \E a \in AcqOutcomes : SDL_AppIterate(a)
    \/ SDL_AppQuit

Spec == Init /\ [][Next]_vars

(***************************************************************************)
(* Helpers of the properties                                               *)
(***************************************************************************)
Slots == 1..SPRITE_COUNT

CountOp(cs, op) == Cardinality({ i \in 1..Len(cs) : cs[i].op = op })

Pos(cs, op) == CHOOSE i \in 1..Len(cs) : cs[i].op = op

RECURSIVE Project(_, _)
Project(seq, set) ==
    IF seq = <<>> THEN <<>>
    ELSE (IF Head(seq) \in set THEN <<Head(seq)>> ELSE <<>>)
         \o Project(Tail(seq), set)

Reverse(seq) == [i \in 1..Len(seq) |-> seq[Len(seq) + 1 - i]]

\* The last SDL_AppIterate ran the build loop and drew.
Drew == acq = "texture"

\* The state is the one SDL_AppIterate returned in.
AfterIterate == lastOp = "iterate"

(***************************************************************************)
(* C1                                                                      *)
(***************************************************************************)
\* C1: SDL_AppEvent always returns SDL_APP_CONTINUE; an SDL_AppIterate that
\* acquired its command buffer and its swapchain returns SDL_APP_CONTINUE
\* while no SDL_EVENT_QUIT has been delivered and SDL_APP_SUCCESS once one
\* has been delivered; after a quit event app_quit stays SDL_APP_SUCCESS.
C1_QuitSignal ==
    /\ lastOp = "event" => result = SDL_APP_CONTINUE
    /\ (AfterIterate /\ acq \notin {"cmdbuf_fail", "swapchain_fail"}) =>
          result = IF quitDelivered THEN SDL_APP_SUCCESS
                   ELSE SDL_APP_CONTINUE
    /\ quitDelivered => app_quit = SDL_APP_SUCCESS
    /\ ~quitDelivered => app_quit = SDL_APP_CONTINUE

(***************************************************************************)
(* C2                                                                      *)
(***************************************************************************)
\* C2: SDL_AppInit returns SDL_APP_FAILURE, the error logged last, whenever
\* a shader, the atlas image, the font or the music failed to load, and
\* SDL_APP_CONTINUE only when all of them loaded.
C2_MissingAssetFails ==
    lastOp = "init" =>
      /\ (\E a \in {"vertShader", "fragShader", "image", "font", "music"} :
             assets[a] = "null")
           => (result = SDL_APP_FAILURE /\ log[Len(log)] = "Error")
      /\ result = SDL_APP_CONTINUE =>
           \A a \in {"vertShader", "fragShader", "image", "font", "music"} :
              assets[a] = "loaded"

(***************************************************************************)
(* C3                                                                      *)
(***************************************************************************)
\* C3 as stated: after every SDL_AppIterate that submitted its command
\* buffer, every record was written during that call, also when the
\* swapchain texture was NULL.
C3_EverySubmittedFrameOverwrites ==
    (AfterIterate /\ CountOp(calls, "SDL_SubmitGPUCommandBuffer") > 0) =>
       \A i \in Slots : i \in DOMAIN writtenIn /\ writtenIn[i] = callNo

\* C3 amended: an SDL_AppIterate that submitted its command buffer after it
\* got a swapchain texture wrote every one of the SPRITE_COUNT records
\* during that call, so no record of an earlier frame is left; one that
\* submitted after it got a NULL texture wrote no record, and the records
\* of the earlier frame stay.
C3_BuiltFrameOverwrites ==
    /\ phase # "boot" => Len(transfer) \in {0, SPRITE_COUNT}
    /\ (AfterIterate /\ CountOp(calls, "SDL_SubmitGPUCommandBuffer") > 0) =>
         /\ acq \in {"texture", "no_texture"}
         /\ acq = "texture" =>
               /\ Len(transfer) = SPRITE_COUNT
               /\ \A i \in Slots : writtenIn[i] = callNo
         /\ acq = "no_texture" =>
               \A i \in DOMAIN writtenIn : writtenIn[i] < callNo

C3_Witness ==
    /\ Drew /\ built >= 2
    /\ CountOp(calls, "SDL_SubmitGPUCommandBuffer") = 1
    /\ \A i \in Slots : writtenIn[i] = callNo

(***************************************************************************)
(* C4                                                                      *)
(***************************************************************************)
\* C4: every index drawn by SDL_rand(4) is in 0..3; after a build every
\* record has the UV origin of its index in uCoords and vCoords, which is
\* one of the pairs (0,0), (0.5,0), (0,0.5), (0.5,0.5), and the UV extent
\* (0.5, 0.5).
C4_TextureRectangle ==
    /\ \A i \in DOMAIN indices : indices[i] \in 0..3
    /\ Drew =>
      \A i \in Slots :
         /\ indices[i] \in 0..3
         /\ transfer[i].tex_u = uCoords[indices[i] + 1]
         /\ transfer[i].tex_v = vCoords[indices[i] + 1]
         /\ <<transfer[i].tex_u, transfer[i].tex_v>>
               \in { <<0, 0>>, <<1, 0>>, <<0, 1>>, <<1, 1>> }
         /\ transfer[i].tex_w = 1
         /\ transfer[i].tex_h = 1

C4_Witness ==
    /\ Drew
    /\ \E i \in Slots : indices[i] = 3 /\ transfer[i].tex_u = 1
                        /\ transfer[i].tex_v = 1
    /\ \E i \in Slots : indices[i] = 0

(***************************************************************************)
(* C5                                                                      *)
(***************************************************************************)
\* 2 * pi lies between the floats 13176794 * 2^-21 and 13176795 * 2^-21, and
\* a float [m, e] with m < 2^24 and e < -21 is below 8: the float is in
\* [0, 2 * pi) iff one of the two holds.
RotationInRange(f) ==
    /\ f.m >= 0 /\ f.m < 16777216
    /\ f.e < -21 \/ (f.e = -21 /\ f.m <= 13176794)

\* C5 as stated: after a build every record lies inside the window's logical
\* size and has a rotation in [0, 2 * pi).
C5_InsideWindow ==
    (AfterIterate /\ Drew) =>
      \A i \in Slots :
         /\ 0 <= transfer[i].x /\ transfer[i].x < winSize[1]
         /\ 0 <= transfer[i].y /\ transfer[i].y < winSize[2]
         /\ RotationInRange(transfer[i].rotation)

\* C5 amended: after a build every record has 0 <= x < 640 and 0 <= y < 480,
\* the size the window opens with, whatever size the window has now, and a
\* rotation in [0, 2 * pi).
C5_InsideStartSize ==
    Drew =>
      \A i \in Slots :
         /\ 0 <= transfer[i].x /\ transfer[i].x < windowStartWidth
         /\ 0 <= transfer[i].y /\ transfer[i].y < windowStartHeight
         /\ RotationInRange(transfer[i].rotation)

C5_Witness ==
    /\ AfterIterate /\ Drew /\ winSize = <<320, 240>>
    /\ \E i \in Slots : /\ transfer[i].x = 639
                        /\ transfer[i].rotation = [m |-> 13176794, e |-> -21]

(***************************************************************************)
(* C6                                                                      *)
(***************************************************************************)
\* The sprite array of the n-th built frame of the reference run: the run
\* whose SDL_srand(0) read ReferenceCounter.
RECURSIVE FrameFrom(_, _)
FrameFrom(s, n) ==
    LET loop == BuildSprites(s, 0)
    IN  IF n <= 1 THEN loop.recs ELSE FrameFrom(loop.rand, n - 1)

ReferenceFrame(n) == FrameFrom(SDL_srand(Zero64, ReferenceCounter), n)

\* C6: every run seeds with SDL_srand(0), so the sprite array of the n-th
\* built frame of every run is the one of the reference run: it depends on
\* n alone, not on events, time or frames without a build.
C6_Determinism ==
    built >= 1 => transfer = ReferenceFrame(built)

(***************************************************************************)
(* C7                                                                      *)
(***************************************************************************)
\* The SDL calls of a drawing frame that the claim orders.
OrderedOps ==
    << "SDL_AcquireGPUCommandBuffer", "SDL_WaitAndAcquireGPUSwapchainTexture",
       "SDL_MapGPUTransferBuffer", "SDL_UnmapGPUTransferBuffer",
       "SDL_BeginGPUCopyPass", "SDL_UploadToGPUBuffer", "SDL_EndGPUCopyPass",
       "SDL_BeginGPURenderPass", "SDL_BindGPUGraphicsPipeline",
       "SDL_DrawGPUPrimitives", "SDL_EndGPURenderPass",
       "SDL_SubmitGPUCommandBuffer" >>

InOrder(cs) ==
    /\ \A k \in 1..Len(OrderedOps) : CountOp(cs, OrderedOps[k]) = 1
    /\ \A k \in 2..Len(OrderedOps) :
          Pos(cs, OrderedOps[k - 1]) < Pos(cs, OrderedOps[k])
    /\ \A i \in Slots :
          \E j \in 1..Len(cs) :
             /\ cs[j] = CallArg("Write", i)
             /\ Pos(cs, "SDL_MapGPUTransferBuffer") < j
             /\ j < Pos(cs, "SDL_UnmapGPUTransferBuffer")
    /\ CountOp(cs, "Write") = SPRITE_COUNT

\* C7: a drawing SDL_AppIterate maps, writes every record, unmaps, uploads
\* in a copy pass, draws SPRITE_COUNT * 6 vertices in a render pass and
\* submits, in this order on one command buffer; a draw of this call reads
\* the records of this frame, and with all its handles the call does draw;
\* the transfer buffer is not mapped when the upload is recorded and is
\* unmapped when any callback returns.
C7_FrameOrder ==
    /\ ~mapped
    /\ ~hazard
    /\ drawn.call <= callNo
    /\ (AfterIterate /\ drawn.call = callNo) => Drew
    /\ Drew =>
         /\ InOrder(calls)
         /\ unsubmitted = 0
         /\ "SpriteDataBuffer" \in live => gpuBuffer = transfer
         /\ DrawHandles \subseteq live => drawn.call = callNo
         /\ drawn.call = callNo =>
               drawn = [vertices |-> SPRITE_COUNT * 6, data |-> transfer,
                        call |-> callNo]

C7_Witness ==
    /\ Drew /\ built >= 2 /\ InOrder(calls) /\ drawn.call = callNo
    /\ drawn.data = transfer /\ drawn.data # ReferenceFrame(1)

(***************************************************************************)
(* C8                                                                      *)
(***************************************************************************)
\* C8: an SDL_AppIterate that cannot acquire the command buffer or the
\* swapchain texture logs the error and returns SDL_APP_FAILURE whatever
\* app_quit is, writes no record, draws no random number and records no
\* upload and no draw.
C8_AcquireFailure ==
    [][ (callNo' = callNo + 1 /\ acq' \in {"cmdbuf_fail", "swapchain_fail"})
          => /\ result' = SDL_APP_FAILURE
             /\ Len(log') = 2
             /\ log'[2] = "Error"
             /\ rand_state' = rand_state
             /\ transfer' = transfer
             /\ writtenIn' = writtenIn
             /\ gpuBuffer' = gpuBuffer
             /\ drawn' = drawn
             /\ built' = built
             /\ CountOp(calls', "Write") = 0
             /\ CountOp(calls', "SDL_UploadToGPUBuffer") = 0
             /\ CountOp(calls', "SDL_DrawGPUPrimitives") = 0 ]_vars

C8_Witness ==
    /\ AfterIterate /\ acq = "swapchain_fail" /\ quitDelivered
    /\ app_quit = SDL_APP_SUCCESS /\ result = SDL_APP_FAILURE
    /\ built >= 1

(***************************************************************************)
(* C9                                                                      *)
(***************************************************************************)
WindowDeviceHandles == {"window", "device", "claim"}
AudioHandles == {"audioDevice", "mixer", "music"}

\* SDL_AppQuit ran on an application that SDL_AppInit had set up.
ShutDown == phase = "done" /\ appstate = "deleted"

\* C9 as stated: shutdown releases the window, the GPU device and the claim
\* in the reverse of the order in which SDL_AppInit acquired them.
C9_ReverseOfAcquisition ==
    ShutDown =>
      Project(released, WindowDeviceHandles)
         = Reverse(Project(acquired, WindowDeviceHandles))

\* C9 amended: shutdown releases the window from the GPU device, then
\* destroys the window and after it the GPU device (the two in the order of
\* their creation), then frees the music and closes the mixer and the audio
\* device (the reverse of their acquisition), then deletes the context and
\* quits the font library and SDL; no handle is used after its release.
C9_ShutdownOrder ==
    /\ ~useAfterRelease
    /\ ShutDown =>
         /\ released = << "claim", "window", "device", "music", "mixer",
                          "audioDevice", "app", "TTF", "SDL" >>
         /\ Project(acquired, WindowDeviceHandles)
               = <<"window", "device", "claim">>
         /\ Project(released, AudioHandles)
               = Reverse(Project(acquired, AudioHandles))
         /\ live \cap {"window", "device", "claim", "audioDevice", "mixer",
                       "music", "app", "TTF", "SDL"} = {}

C9_Witness ==
    /\ ShutDown /\ Len(released) = 9 /\ built >= 1
    /\ result = SDL_APP_SUCCESS

(***************************************************************************)
(* C10                                                                     *)
(***************************************************************************)
\* C10: every command buffer SDL_AppIterate acquired is submitted exactly
\* once before the call returns, on every return path.
C10_SubmittedOnce ==
    /\ unsubmitted = 0
    /\ (AfterIterate /\ acq # "cmdbuf_fail") =>
          CountOp(calls, "SDL_SubmitGPUCommandBuffer") = 1

====
